---- MODULE Spec2Model ----
(***************************************************************************)
(* Notifly: asynchronous notification delivery.                            *)
(*                                                                         *)
(* Intake (Service.Enqueue), worker (Worker.ProcessTask), reaper           *)
(* (Reaper.Run / sweep), shutdown of the worker process (main), webhook    *)
(* applicator (Service.HandleWebhookEvent),                                *)
(* the notification store (SupabaseStore over the notification_logs        *)
(* table), the task queue (asynq) and the per-recipient limiter            *)
(* (RedisRecipientLimiter.Allow), each split at its calls to the shared    *)
(* store, queue, limiter store and provider.                               *)
(*                                                                         *)
(* Time is a discrete clock.  A reaper sweep takes no clock time: the      *)
(* clock does not advance while a sweep is due or in progress, but the     *)
(* other actors interleave freely with the steps of the sweep.             *)
(***************************************************************************)
EXTENDS Integers, Sequences, FiniteSets, Bags, TLC

\* ------------------------------------------------------------------ bounds
MaxTime == 4
MaxFaults == 2
MaxWebhooks == 2
MaxSends == 3
NumCallers == 2
NumWorkers == 2
NumLimCallers == 2
NumGlCallers == 2

\* ----------------------------------------------------- configuration values
Interval == 1
StaleThreshold == 2
BatchSize == 1
MaxRetry == 1
MaxPerWindow == 2
Window == 2
TTLMargin == 1

\* ------------------------------------------------------------ value spaces
NoId == 0
NoPid == 0
NoTime == -1

Callers == 1..NumCallers
Workers == 1..NumWorkers
LimCallers == 1..NumLimCallers

StatusQueued == "queued"
StatusProcessing == "processing"
StatusSent == "sent"
StatusFailed == "failed"
StatusDelivered == "delivered"
StatusBounced == "bounced"
StatusOpened == "opened"

Statuses ==
  {StatusQueued, StatusProcessing, StatusSent, StatusFailed,
   StatusDelivered, StatusBounced, StatusOpened}

WebhookStatuses == {StatusDelivered, StatusBounced, StatusOpened}

ChannelEmail == "email"
ChannelSMS == "sms"
TypeConfirmSignup == "confirm_signup"

validTypes == {TypeConfirmSignup}

IsValidType(t) == t \in validTypes

\* the worker is constructed with the Resend (email) provider only
providers == {ChannelEmail}

VARIABLES
  main,       \* main goroutine of the worker process: position, deferred calls, events
  now,        \* wall clock
  store,      \* notification_logs: sequence of rows, row id = index
  queue,      \* bag of waiting tasks [id, retried]
  call,       \* Service.Enqueue invocations, one per caller
  wk,         \* queue server handler slots running Worker.ProcessTask
  rp,         \* Reaper.Run loop
  pidCount,   \* number of provider message ids issued by provider.Send
  whCount,    \* number of webhook events applied
  whLast,     \* response to the last webhook request and whether the store was called
  faults,     \* number of injected store/queue/provider/limiter failures
  sends,      \* history: successful provider.Send calls per record id
  order,      \* history: position of each record on the happy-path mutation order
  reaped,     \* history: some sweep found a stale record
  truncated,  \* history: some sweep left stale records beyond batch_size
  archived,   \* history: ids of records with a task the queue gave up on
  bucket,     \* limiter sorted set per recipient: bag of scores
  bucketExp,  \* limiter key expiry time per recipient
  lim,        \* RedisRecipientLimiter.Allow invocations
  admits,     \* history: times at which Allow returned true, per recipient
  delays,     \* history: <<n, seconds>> for the calls of the queue's RetryDelayFunc
  rp2,        \* Reaper.Run loop of a second worker process
  ipLimiter,  \* middleware.RateLimiter: its map of limiters and its RWMutex
  gl          \* RateLimiter.getLimiter invocations

vars ==
  <<main, now, store, queue, call, wk, rp, pidCount, whCount, whLast, faults, sends,
    order, reaped, truncated, archived, bucket, bucketExp, lim, admits, delays,
    rp2, ipLimiter, gl>>

pipeVars ==
  <<main, store, queue, call, wk, rp, pidCount, whCount, whLast, sends, order, reaped,
    truncated, archived, delays>>
limVars == <<bucket, bucketExp, lim, admits>>
ipVars == <<ipLimiter, gl>>

Recipients == {"a@b.com"}

\* client addresses seen by the HTTP rate-limit middleware
IPs == {"10.0.0.1", "10.0.0.2"}
GlCallers == 1..NumGlCallers
NoLimiter == 0
NoCaller == 0

IdleGet == [pc |-> "idle", ip |-> "", ret |-> NoLimiter]

\* every Enqueue call creates at most one row
Ids == 1..NumCallers

\* injected failures are budgeted
Outcomes == IF faults < MaxFaults THEN {TRUE, FALSE} ELSE {TRUE}

Fault(ok) == faults' = IF ok THEN faults ELSE faults + 1

\* ------------------------------------------------------ notification store
Exists(id) == id \in DOMAIN store

\* rows carrying the key (idempotency_key = key)
RowsWithKey(key) == {i \in DOMAIN store : store[i].key = key}

\* a constraint that treats the missing key as a value like any other
UniqueViolationEmptyKey(key) == RowsWithKey(key) # {}

\* the UNIQUE constraint on notification_logs.idempotency_key; a NULL key
\* (empty in the request) never conflicts
UniqueViolation(key) == key # "" /\ RowsWithKey(key) # {}

NewRow(key, channel, typ) ==
  [key |-> key, channel |-> channel, typ |-> typ, status |-> StatusQueued,
   providerId |-> NoPid, errMsg |-> "", createdAt |-> now, updatedAt |-> now,
   sentAt |-> NoTime, deliveredAt |-> NoTime, openedAt |-> NoTime,
   bouncedAt |-> NoTime]

\* Create without the UNIQUE constraint on idempotency_key
CreateNoUnique(key, channel, typ) == Append(store, NewRow(key, channel, typ))

\* SupabaseStore.Create: the store after the insert (unchanged when the
\* constraint rejects the row)
Create(key, channel, typ) ==
  IF UniqueViolation(key) THEN store
  ELSE Append(store, NewRow(key, channel, typ))

\* SupabaseStore.GetByIdempotencyKey: id of rows[0], NoId for no rows
GetByIdempotencyKey(key) ==
  IF RowsWithKey(key) = {} THEN NoId
  ELSE CHOOSE i \in RowsWithKey(key) : \A j \in RowsWithKey(key) : i <= j

\* an UpdateStatus that keeps the provider_id the row already has
UpdateStatusFirstProviderId(id, status, providerID, errMsg) ==
  IF ~Exists(id) THEN store
  ELSE [store EXCEPT ![id] =
         [@ EXCEPT !.status = status,
                   !.updatedAt = now,
                   !.providerId = IF providerID # NoPid /\ @ = NoPid THEN providerID ELSE @,
                   !.errMsg = IF errMsg # "" THEN errMsg ELSE @,
                   !.sentAt = IF status = StatusSent THEN now ELSE @]]

\* an UpdateStatus that leaves updated_at as it was
UpdateStatusKeepsUpdatedAt(id, status, providerID, errMsg) ==
  IF ~Exists(id) THEN store
  ELSE [store EXCEPT ![id] =
         [@ EXCEPT !.status = status,
                   !.providerId = IF providerID # NoPid THEN providerID ELSE @,
                   !.errMsg = IF errMsg # "" THEN errMsg ELSE @,
                   !.sentAt = IF status = StatusSent THEN now ELSE @]]

\* SupabaseStore.UpdateStatus: update ... where id = id
UpdateStatus(id, status, providerID, errMsg) ==
  IF ~Exists(id) THEN store
  ELSE [store EXCEPT ![id] =
         [@ EXCEPT !.status = status,
                   !.updatedAt = now,
                   !.providerId = IF providerID # NoPid THEN providerID ELSE @,
                   !.errMsg = IF errMsg # "" THEN errMsg ELSE @,
                   !.sentAt = IF status = StatusSent THEN now ELSE @]]

\* SupabaseStore.UpdateWebhookStatus: update ... where provider_id = providerID
UpdateWebhookStatus(providerID, status) ==
  [i \in DOMAIN store |->
     IF store[i].providerId = providerID
     THEN [store[i] EXCEPT
             !.status = status,
             !.updatedAt = now,
             !.deliveredAt = IF status = StatusDelivered THEN now ELSE @,
             !.bouncedAt = IF status = StatusBounced THEN now ELSE @,
             !.openedAt = IF status = StatusOpened THEN now ELSE @]
     ELSE store[i]]

\* a ListStale filter that forgets the processing rows
StaleIdsQueuedOnly(olderThan) ==
  {i \in DOMAIN store :
     store[i].status = StatusQueued /\ store[i].updatedAt < olderThan}

\* rows matched by the ListStale filter
StaleIds(olderThan) ==
  {i \in DOMAIN store :
     /\ store[i].status \in {StatusQueued, StatusProcessing}
     /\ store[i].updatedAt < olderThan}

Min(a, b) == IF a < b THEN a ELSE b

\* a ListStale without the order by updated_at: any limit rows of the filter
ListStaleAnyOrder(olderThan, limit) ==
  LET S == StaleIds(olderThan)
      n == Min(IF limit <= 0 THEN 50 ELSE limit, Cardinality(S))
  IN {q \in [1..n -> S] : \A a, b \in 1..n : a < b => q[a] # q[b]}

\* SupabaseStore.ListStale: the possible result lists (ids), oldest
\* updated_at first, at most limit rows; rows with equal updated_at come in
\* any order
ListStale(olderThan, limit) ==
  LET S == StaleIds(olderThan)
      n == Min(IF limit <= 0 THEN 50 ELSE limit, Cardinality(S))
  IN {q \in [1..n -> S] :
        /\ \A a, b \in 1..n : a < b =>
              /\ q[a] # q[b]
              /\ store[q[a]].updatedAt <= store[q[b]].updatedAt
        /\ \A i \in S : (\A a \in 1..n : q[a] # i) =>
              \A a \in 1..n : store[q[a]].updatedAt <= store[i].updatedAt}

\* ------------------------------------------------------------- task queue
Task(id, retried) == [id |-> id, retried |-> retried]

\* queue.EnqueueSendNotification: a new task for the record id
EnqueueSendNotification(logID) == queue (+) SetToBag({Task(logID, 0)})

\* ---------------------------------------------------------- history monitor
\* happy-path mutation order: create, processing, sent, webhook*
OrderAfter(pos, mutation) ==
  CASE mutation = StatusProcessing /\ pos = "create" -> "processing"
    [] mutation = StatusSent /\ pos = "processing" -> "sent"
    [] mutation = "webhook" /\ pos \in {"sent", "webhook"} -> "webhook"
    [] OTHER -> "off"

Mutated(id, mutation) ==
  IF Exists(id) THEN [order EXCEPT ![id] = OrderAfter(@, mutation)] ELSE order

IdleCall ==
  [pc |-> "idle", key |-> "", channel |-> ChannelEmail, typ |-> TypeConfirmSignup,
   rl |-> "none", id |-> NoId, res |-> "none", rstatus |-> "", rchannel |-> "",
   rkey |-> ""]

\* the state after construction, the reaper configured with the batch size
Configured(batchSize) ==
  /\ main = [pc |-> "serving", defers |-> <<"asynqClient.Close", "reaperCancel">>,
             events |-> <<>>]
  /\ now = 0
  /\ store = <<>>
  /\ queue = EmptyBag
  /\ call = [c \in Callers |-> IdleCall]
  /\ wk = [w \in Workers |-> [pc |-> "idle", task |-> Task(NoId, 0), channel |-> "", typ |-> "", pid |-> NoPid]]
  /\ rp = [pc |-> "wait", next |-> Interval, stale |-> <<>>, cancelled |-> FALSE,
           batchSize |-> batchSize]
  /\ pidCount = 0
  /\ whCount = 0
  /\ faults = 0
  /\ sends = [i \in Ids |-> 0]
  /\ order = [i \in Ids |-> "none"]
  /\ reaped = FALSE
  /\ truncated = FALSE
  /\ archived = {}
  /\ whLast = [kind |-> "none", res |-> "none", storeCalled |-> FALSE]
  /\ bucket = [r \in Recipients |-> EmptyBag]
  /\ bucketExp = [r \in Recipients |-> NoTime]
  /\ lim = [l \in LimCallers |-> [pc |-> "idle", rcpt |-> "a@b.com", at |-> 0, res |-> "none"]]
  /\ admits = [r \in Recipients |-> EmptyBag]
  /\ delays = {}
  /\ rp2 = [pc |-> "off", next |-> 0, stale |-> <<>>, batchSize |-> batchSize]
  /\ ipLimiter = [limiters |-> [ip \in IPs |-> NoLimiter],
                  mu |-> [readers |-> {}, writer |-> NoCaller],
                  created |-> [ip \in IPs |-> 0]]
  /\ gl = [g \in GlCallers |-> IdleGet]

Init == Configured(BatchSize)

\* ------------------------------------------------ intake: Service.Enqueue
\* the call returns; a SendResponse (id, status, channel, idempotency_key) is
\* built from the existing record on a replay and from the request and the
\* new record on acceptance
Done(c, res, id, rstatus) ==
  [call[c] EXCEPT
     !.pc = "done", !.res = res, !.id = id, !.rstatus = rstatus,
     !.rchannel = IF res = "replay" THEN store[id].channel
                  ELSE IF res = "ok" THEN call[c].channel ELSE "",
     !.rkey = IF res = "replay" THEN store[id].key
              ELSE IF res = "ok" THEN call[c].key ELSE ""]

\* validate the notification type, then choose the idempotency branch
EnqStart(c, key, channel, typ) ==
  /\ call[c].pc = "idle"
  /\ LET req == [call[c] EXCEPT !.key = key, !.channel = channel, !.typ = typ]
     IN call' = [call EXCEPT ![c] =
          IF ~IsValidType(typ)
          THEN [req EXCEPT !.pc = "done", !.res = "validation"]
          ELSE [req EXCEPT !.pc = IF key # "" THEN "lookup" ELSE "ratelimit"]]
  /\ UNCHANGED <<rp2, ipVars, main, now, store, queue, wk, rp, pidCount, whCount, whLast, faults, sends,
                 order, reaped, truncated, archived, delays>>
  /\ UNCHANGED limVars

\* an Enqueue that ignores the record found under the key
EnqLookupNoReplay(c) ==
  /\ call[c].pc = "lookup"
  /\ \E ok \in Outcomes :
       /\ Fault(ok)
       /\ call' = [call EXCEPT ![c] = [@ EXCEPT !.pc = "ratelimit"]]
  /\ UNCHANGED <<rp2, ipVars, main, now, store, queue, wk, rp, pidCount, whCount, whLast, sends,
                 order, reaped, truncated, archived, delays>>
  /\ UNCHANGED limVars

\* store.GetByIdempotencyKey; a lookup error is logged and ignored
EnqLookup(c) ==
  /\ call[c].pc = "lookup"
  /\ \E ok \in Outcomes :
       /\ Fault(ok)
       /\ LET existing == IF ok THEN GetByIdempotencyKey(call[c].key) ELSE NoId
          IN call' = [call EXCEPT ![c] =
               IF existing # NoId
               THEN Done(c, "replay", existing, store[existing].status)
               ELSE [@ EXCEPT !.pc = "ratelimit"]]
  /\ UNCHANGED <<rp2, ipVars, main, now, store, queue, wk, rp, pidCount, whCount, whLast, sends, order,
                 reaped, truncated, archived, delays>>
  /\ UNCHANGED limVars

\* Enqueue failing closed: a limiter error rejects like a denial
AfterAllowFailClosed(c, answer) ==
  IF answer # "allowed"
  THEN [call[c] EXCEPT !.pc = "done", !.rl = answer, !.res = "rate_limited"]
  ELSE [call[c] EXCEPT !.pc = "create", !.rl = answer]

\* Enqueue going on to Create whatever the limiter answered
AfterAllowIgnoreDenied(c, answer) == [call[c] EXCEPT !.pc = "create", !.rl = answer]

\* what Enqueue does with the answer of rateLimiter.Allow
\* ("allowed" = (true, nil), "denied" = (false, nil), "error" = (_, err))
AfterAllow(c, answer) ==
  IF answer = "denied"
  THEN [call[c] EXCEPT !.pc = "done", !.rl = answer, !.res = "rate_limited"]
  ELSE [call[c] EXCEPT !.pc = "create", !.rl = answer]

\* rateLimiter.Allow as seen through the RecipientRateLimiter interface
EnqRateLimit(c) ==
  /\ call[c].pc = "ratelimit"
  /\ \E answer \in {"allowed", "denied"} \cup (IF faults < MaxFaults THEN {"error"} ELSE {}) :
       /\ Fault(answer # "error")
       /\ call' = [call EXCEPT ![c] = AfterAllow(c, answer)]
  /\ UNCHANGED <<rp2, ipVars, main, now, store, queue, wk, rp, pidCount, whCount, whLast, sends, order,
                 reaped, truncated, archived, delays>>
  /\ UNCHANGED limVars

\* Enqueue ignoring the error of Create: it goes on to enqueue the empty id
EnqCreateIgnoreError(c) ==
  /\ call[c].pc = "create"
  /\ \E ok \in Outcomes :
       /\ Fault(ok)
       /\ LET after == IF ok THEN Create(call[c].key, call[c].channel, call[c].typ)
                       ELSE store
              inserted == Len(after) > Len(store)
          IN /\ store' = after
             /\ call' = [call EXCEPT ![c] =
                  [@ EXCEPT !.pc = "enqueue",
                            !.id = IF inserted THEN Len(after) ELSE NoId]]
             /\ order' = IF inserted THEN [order EXCEPT ![Len(after)] = "create"]
                         ELSE order
  /\ UNCHANGED <<rp2, ipVars, main, now, queue, wk, rp, pidCount, whCount, whLast, sends,
                 reaped, truncated, archived, delays>>
  /\ UNCHANGED limVars

\* store.Create with status queued
EnqCreate(c) ==
  /\ call[c].pc = "create"
  /\ \E ok \in Outcomes :
       /\ Fault(ok)
       /\ LET after == IF ok THEN Create(call[c].key, call[c].channel, call[c].typ)
                       ELSE store
              inserted == Len(after) > Len(store)
          IN /\ store' = after
             /\ call' = [call EXCEPT ![c] =
                  IF inserted THEN [@ EXCEPT !.pc = "enqueue", !.id = Len(after)]
                  ELSE Done(c, IF ok THEN "create_dup" ELSE "create_err", NoId, "")]
             /\ order' = IF inserted THEN [order EXCEPT ![Len(after)] = "create"]
                         ELSE order
  /\ UNCHANGED <<rp2, ipVars, main, now, queue, wk, rp, pidCount, whCount, whLast, sends,
                 reaped, truncated, archived, delays>>
  /\ UNCHANGED limVars

\* enqueuer.EnqueueSendNotification(notifLog.ID)
EnqEnqueue(c) ==
  /\ call[c].pc = "enqueue"
  /\ \E ok \in Outcomes :
       /\ Fault(ok)
       /\ queue' = IF ok THEN EnqueueSendNotification(call[c].id) ELSE queue
       /\ call' = [call EXCEPT ![c] =
            IF ok THEN Done(c, "ok", call[c].id, StatusQueued)
            ELSE [@ EXCEPT !.pc = "markFailed"]]
  /\ UNCHANGED <<rp2, ipVars, main, now, store, wk, rp, pidCount, whCount, whLast, sends, order, reaped,
                 truncated, archived, delays>>
  /\ UNCHANGED limVars

\* an Enqueue that returns the enqueue error without touching the record
EnqMarkFailedNoUpdate(c) ==
  /\ call[c].pc = "markFailed"
  /\ call' = [call EXCEPT ![c] = Done(c, "enqueue_err", NoId, "")]
  /\ UNCHANGED <<rp2, ipVars, main, now, store, queue, wk, rp, pidCount, whCount, whLast, faults,
                 sends, order, reaped, truncated, archived, delays>>
  /\ UNCHANGED limVars

\* best-effort UpdateStatus(failed) after a failed enqueue
EnqMarkFailed(c) ==
  /\ call[c].pc = "markFailed"
  /\ \E ok \in Outcomes :
       /\ Fault(ok)
       /\ store' = IF ok THEN UpdateStatus(call[c].id, StatusFailed, NoPid, "failed to enqueue")
                   ELSE store
       /\ order' = IF ok THEN Mutated(call[c].id, StatusFailed) ELSE order
  /\ call' = [call EXCEPT ![c] = Done(c, "enqueue_err", NoId, "")]
  /\ UNCHANGED <<rp2, ipVars, main, now, queue, wk, rp, pidCount, whCount, whLast, sends,
                 reaped, truncated, archived, delays>>
  /\ UNCHANGED limVars

Keys == {"", "k1"}
Channels == {ChannelEmail, ChannelSMS}
Types == {TypeConfirmSignup, "bogus"}

\* the Enqueue calls of the callers C, with requests drawn from K, Ch and Ty
Intake(C, K, Ch, Ty) ==
  \E c \in C :
    \/ \E key \in K, channel \in Ch, typ \in Ty : EnqStart(c, key, channel, typ)
    \/ EnqLookup(c)
    \/ EnqRateLimit(c)
    \/ EnqCreate(c)
    \/ EnqEnqueue(c)
    \/ EnqMarkFailed(c)

NextIntake == Intake(Callers, Keys, Channels, Types)

SpecIntake == Init /\ [][NextIntake]_vars

\* ------------------------------------------------- worker process (main)
\* the worker process has not exited: its goroutines (handlers, reaper) run
Alive == main.pc # "exited"

\* the queue server takes tasks from the queue until Shutdown is called
Dispatching == main.pc \in {"serving", "cancelled"}

\* ------------------------------------------- queue server (asynq) dispatch
IdleWorker == [pc |-> "idle", task |-> Task(NoId, 0), channel |-> "", typ |-> "", pid |-> NoPid]

\* a handler slot takes a waiting task and invokes ProcessTask
Dispatch(w) ==
  /\ Dispatching
  /\ wk[w].pc = "idle"
  /\ \E t \in BagToSet(queue) :
       /\ queue' = queue (-) SetToBag({t})
       /\ wk' = [wk EXCEPT ![w] = [IdleWorker EXCEPT !.pc = "get", !.task = t]]
  /\ UNCHANGED <<rp2, ipVars, main, now, store, call, rp, pidCount, whCount, whLast, faults, sends, order,
                 reaped, truncated, archived, delays>>
  /\ UNCHANGED limVars

\* a queue that retries without a limit
AfterErrorNoLimit(t) == queue (+) SetToBag({Task(t.id, t.retried + 1)})

\* the queue after the handler returned an error: the task is retried while
\* retried < max_retry and archived after that
AfterError(t) ==
  IF t.retried < MaxRetry THEN queue (+) SetToBag({Task(t.id, t.retried + 1)})
  ELSE queue

\* 1 << uint(k) on a 64-bit int, for the shift counts the model passes: a
\* negative k converts to a count of 2^64 + k >= 64, which shifts every bit out
ShiftLeftOne(k) == IF k < 0 \/ k >= 64 THEN 0 ELSE 2 ^ k

\* the RetryDelayFunc of queue.NewServer, in seconds:
\* time.Duration(30*(1<<uint(n-1))) * time.Second
RetryDelayFunc(n) == 30 * ShiftLeftOne(n - 1)

\* history of the delays: the queue calls RetryDelayFunc with the number of
\* times the task has been retried so far (0 at the first retry)
Delays(t) ==
  IF t.retried < MaxRetry THEN delays \cup {<<t.retried, RetryDelayFunc(t.retried)>>}
  ELSE delays

\* history of the tasks the queue archived: the last retry returned an error
Archive(t) == IF t.retried < MaxRetry THEN archived ELSE archived \cup {t.id}

\* ---------------------------------------------- worker: Worker.ProcessTask
\* store.GetByID; an error or a missing row ends the attempt with an error
WGet(w) ==
  /\ Alive
  /\ wk[w].pc = "get"
  /\ \E ok \in Outcomes :
       /\ Fault(ok)
       /\ IF ok /\ Exists(wk[w].task.id)
          THEN /\ wk' = [wk EXCEPT ![w] =
                    [@ EXCEPT !.pc = "setProcessing",
                              !.channel = store[wk[w].task.id].channel,
                              !.typ = store[wk[w].task.id].typ]]
               /\ UNCHANGED <<queue, archived, delays>>
          ELSE /\ wk' = [wk EXCEPT ![w] = IdleWorker]
               /\ queue' = AfterError(wk[w].task)
               /\ archived' = Archive(wk[w].task)
               /\ delays' = Delays(wk[w].task)
  /\ UNCHANGED <<rp2, ipVars, main, now, store, call, rp, pidCount, whCount, whLast, sends, order,
                 reaped, truncated>>
  /\ UNCHANGED limVars

\* UpdateStatus(processing); a failure is logged and the attempt goes on
WSetProcessing(w) ==
  /\ Alive
  /\ wk[w].pc = "setProcessing"
  /\ \E ok \in Outcomes :
       /\ Fault(ok)
       /\ store' = IF ok THEN UpdateStatus(wk[w].task.id, StatusProcessing, NoPid, "")
                   ELSE store
       /\ order' = IF ok THEN Mutated(wk[w].task.id, StatusProcessing) ELSE order
  /\ wk' = [wk EXCEPT ![w] = [@ EXCEPT !.pc = "prepare"]]
  /\ UNCHANGED <<rp2, ipVars, main, now, queue, call, rp, pidCount, whCount, whLast, sends,
                 reaped, truncated, archived, delays>>
  /\ UNCHANGED limVars

\* a ProcessTask that goes to the provider whatever the type, the channel
\* and the result of the rendering
PrepareErrorNone(w, rendered) == ""

\* the reason ProcessTask gives up before the provider call, "" for none
PrepareError(w, rendered) ==
  IF ~IsValidType(wk[w].typ) THEN "unsupported notification type"
  ELSE IF wk[w].channel \notin providers THEN "unsupported channel"
  ELSE IF ~rendered THEN "rendering template"
  ELSE ""

\* type check, provider lookup and renderer.Render; on a failure the record
\* is set to failed (best effort) and the attempt ends with an error
WPrepare(w) ==
  /\ Alive
  /\ wk[w].pc = "prepare"
  /\ \E rendered \in Outcomes :
       LET errMsg == PrepareError(w, rendered)
       IN IF errMsg = ""
          THEN /\ wk' = [wk EXCEPT ![w] = [@ EXCEPT !.pc = "send"]]
               /\ UNCHANGED <<store, queue, order, faults, archived, delays>>
          ELSE \E ok \in Outcomes :
               /\ faults' = faults + (IF errMsg = "rendering template" THEN 1 ELSE 0)
                                   + (IF ok THEN 0 ELSE 1)
               /\ faults' <= MaxFaults
               /\ store' = IF ok THEN UpdateStatus(wk[w].task.id, StatusFailed, NoPid, errMsg)
                           ELSE store
               /\ order' = IF ok THEN Mutated(wk[w].task.id, StatusFailed) ELSE order
               /\ wk' = [wk EXCEPT ![w] = IdleWorker]
               /\ queue' = AfterError(wk[w].task)
               /\ archived' = Archive(wk[w].task)
               /\ delays' = Delays(wk[w].task)
  /\ UNCHANGED <<rp2, ipVars, main, now, call, rp, pidCount, whCount, whLast, sends, reaped, truncated>>
  /\ UNCHANGED limVars

\* what the provider may answer: a 2xx reply carrying a fresh message id, a
\* 2xx reply whose body carries no id (Send returns "" and no error), or a
\* failure; the last two are provider misbehaviour and count as failures
Replies == {"id"} \cup (IF faults < MaxFaults THEN {"noid", "error"} ELSE {})

\* provider.Send: the message id of the reply, or an error
WSend(w) ==
  /\ Alive
  /\ wk[w].pc = "send"
  /\ \E reply \in Replies :
       /\ Fault(reply = "id")
       /\ IF reply # "error"
          THEN /\ reply = "id" => pidCount < MaxSends
               /\ pidCount' = IF reply = "id" THEN pidCount + 1 ELSE pidCount
               /\ sends' = [sends EXCEPT ![wk[w].task.id] = @ + 1]
               /\ wk' = [wk EXCEPT ![w] =
                    [@ EXCEPT !.pc = "markSent",
                              !.pid = IF reply = "id" THEN pidCount + 1 ELSE NoPid]]
          ELSE /\ wk' = [wk EXCEPT ![w] = [@ EXCEPT !.pc = "markFailed"]]
               /\ UNCHANGED <<pidCount, sends>>
  /\ UNCHANGED <<rp2, ipVars, main, now, store, queue, call, rp, whCount, whLast, order, reaped,
                 truncated, archived, delays>>
  /\ UNCHANGED limVars

\* ProcessTask returning an error after the sent update: the queue retries
WMarkSentThenError(w) ==
  /\ Alive
  /\ wk[w].pc = "markSent"
  /\ \E ok \in Outcomes :
       /\ Fault(ok)
       /\ store' = IF ok THEN UpdateStatus(wk[w].task.id, StatusSent, wk[w].pid, "")
                   ELSE store
       /\ order' = IF ok THEN Mutated(wk[w].task.id, StatusSent) ELSE order
  /\ wk' = [wk EXCEPT ![w] = IdleWorker]
  /\ queue' = AfterError(wk[w].task)
  /\ archived' = Archive(wk[w].task)
  /\ delays' = Delays(wk[w].task)
  /\ UNCHANGED <<rp2, ipVars, main, now, call, rp, pidCount, whCount, whLast, sends, reaped, truncated>>
  /\ UNCHANGED limVars

\* UpdateStatus(sent, providerID); ProcessTask returns nil in either case
WMarkSent(w) ==
  /\ Alive
  /\ wk[w].pc = "markSent"
  /\ \E ok \in Outcomes :
       /\ Fault(ok)
       /\ store' = IF ok THEN UpdateStatus(wk[w].task.id, StatusSent, wk[w].pid, "")
                   ELSE store
       /\ order' = IF ok THEN Mutated(wk[w].task.id, StatusSent) ELSE order
  /\ wk' = [wk EXCEPT ![w] = IdleWorker]
  /\ UNCHANGED <<rp2, ipVars, main, now, queue, call, rp, pidCount, whCount, whLast, sends,
                 reaped, truncated, archived, delays>>
  /\ UNCHANGED limVars

\* UpdateStatus(failed, "provider error: ..."); ProcessTask returns a ProviderError
WMarkFailed(w) ==
  /\ Alive
  /\ wk[w].pc = "markFailed"
  /\ \E ok \in Outcomes :
       /\ Fault(ok)
       /\ store' = IF ok THEN UpdateStatus(wk[w].task.id, StatusFailed, NoPid, "provider error")
                   ELSE store
       /\ order' = IF ok THEN Mutated(wk[w].task.id, StatusFailed) ELSE order
  /\ wk' = [wk EXCEPT ![w] = IdleWorker]
  /\ queue' = AfterError(wk[w].task)
  /\ archived' = Archive(wk[w].task)
  /\ delays' = Delays(wk[w].task)
  /\ UNCHANGED <<rp2, ipVars, main, now, call, rp, pidCount, whCount, whLast, sends, reaped, truncated>>
  /\ UNCHANGED limVars

Worker(W) ==
  \E w \in W :
    \/ Dispatch(w)
    \/ WGet(w)
    \/ WSetProcessing(w)
    \/ WPrepare(w)
    \/ WSend(w)
    \/ WMarkSent(w)
    \/ WMarkFailed(w)

\* ------------------------------------------------- reaper: Reaper.Run/sweep
\* the sweep returns to the ticker loop
SweepDone == [rp EXCEPT !.pc = "wait", !.next = rp.next + Interval, !.stale = <<>>]

\* the loop goes on with the next stale record
NextStale == IF Len(rp.stale) > 1 THEN [rp EXCEPT !.pc = "reset", !.stale = Tail(@)]
             ELSE SweepDone

\* ticker fires: sweep calls store.ListStale(now - stale_threshold, batch_size)
\* with the batch size of the reaper's configuration
RSweep ==
  /\ Alive
  /\ rp.pc = "wait"
  /\ now = rp.next
  /\ \E ok \in Outcomes :
       /\ Fault(ok)
       /\ IF ok
          THEN \E staleLogs \in ListStale(now - StaleThreshold, rp.batchSize) :
                 /\ rp' = IF Len(staleLogs) = 0 THEN SweepDone
                          ELSE [rp EXCEPT !.pc = "reset", !.stale = staleLogs]
                 /\ reaped' = (reaped \/ Len(staleLogs) > 0)
                 /\ truncated' = (truncated \/
                       Cardinality(StaleIds(now - StaleThreshold)) > Len(staleLogs))
          ELSE /\ rp' = SweepDone
               /\ UNCHANGED <<reaped, truncated, archived, delays>>
  /\ UNCHANGED <<rp2, ipVars, main, now, store, queue, call, wk, pidCount, whCount, whLast, sends, order,
                 archived, delays>>
  /\ UNCHANGED limVars

\* a sweep that returns at the first reset that fails
RResetStopsOnError ==
  /\ Alive
  /\ rp.pc = "reset"
  /\ \E ok \in Outcomes :
       /\ Fault(ok)
       /\ store' = IF ok THEN UpdateStatus(Head(rp.stale), StatusQueued, NoPid, "")
                   ELSE store
       /\ order' = IF ok THEN Mutated(Head(rp.stale), StatusQueued) ELSE order
       /\ rp' = IF ok THEN [rp EXCEPT !.pc = "enqueue"] ELSE SweepDone
  /\ UNCHANGED <<rp2, ipVars, main, now, queue, call, wk, pidCount, whCount, whLast, sends,
                 reaped, truncated, archived, delays>>
  /\ UNCHANGED limVars

\* UpdateStatus(notifLog.ID, queued, "", ""); on failure continue with the next
RReset ==
  /\ Alive
  /\ rp.pc = "reset"
  /\ \E ok \in Outcomes :
       /\ Fault(ok)
       /\ store' = IF ok THEN UpdateStatus(Head(rp.stale), StatusQueued, NoPid, "")
                   ELSE store
       /\ order' = IF ok THEN Mutated(Head(rp.stale), StatusQueued) ELSE order
       /\ rp' = IF ok THEN [rp EXCEPT !.pc = "enqueue"] ELSE NextStale
  /\ UNCHANGED <<rp2, ipVars, main, now, queue, call, wk, pidCount, whCount, whLast, sends,
                 reaped, truncated, archived, delays>>
  /\ UNCHANGED limVars

\* a sweep that resets the record and forgets to enqueue its id
REnqueueNothing ==
  /\ Alive
  /\ rp.pc = "enqueue"
  /\ rp' = NextStale
  /\ UNCHANGED <<rp2, ipVars, main, now, store, queue, call, wk, pidCount, whCount, whLast, faults,
                 sends, order, reaped, truncated, archived, delays>>
  /\ UNCHANGED limVars

\* enqueuer.EnqueueSendNotification(notifLog.ID); then the next record
REnqueue ==
  /\ Alive
  /\ rp.pc = "enqueue"
  /\ \E ok \in Outcomes :
       /\ Fault(ok)
       /\ queue' = IF ok THEN EnqueueSendNotification(Head(rp.stale)) ELSE queue
  /\ rp' = NextStale
  /\ UNCHANGED <<rp2, ipVars, main, now, store, call, wk, pidCount, whCount, whLast, sends, order, reaped,
                 truncated, archived, delays>>
  /\ UNCHANGED limVars

\* ---------------------------- the reaper of a second worker process: every
\* worker process starts its own Reaper.Run against the same store and queue
SweepDone2 == [rp2 EXCEPT !.pc = "wait", !.next = rp2.next + Interval, !.stale = <<>>]

NextStale2 == IF Len(rp2.stale) > 1 THEN [rp2 EXCEPT !.pc = "reset", !.stale = Tail(@)]
              ELSE SweepDone2

\* a second worker process is started: go reaper.Run(reaperCtx), whose ticker
\* fires first one interval later
R2Start ==
  /\ rp2.pc = "off"
  /\ now + Interval <= MaxTime
  /\ rp2' = [rp2 EXCEPT !.pc = "wait", !.next = now + Interval]
  /\ UNCHANGED <<ipVars, main, now, store, queue, call, wk, rp, pidCount, whCount, whLast, faults,
                 sends, order, reaped, truncated, archived, delays>>
  /\ UNCHANGED limVars

\* its ticker fires: ListStale(now - stale_threshold, batch_size)
R2Sweep ==
  /\ rp2.pc = "wait"
  /\ now = rp2.next
  /\ \E ok \in Outcomes :
       /\ Fault(ok)
       /\ IF ok
          THEN \E staleLogs \in ListStale(now - StaleThreshold, rp2.batchSize) :
                 rp2' = IF Len(staleLogs) = 0 THEN SweepDone2
                        ELSE [rp2 EXCEPT !.pc = "reset", !.stale = staleLogs]
          ELSE rp2' = SweepDone2
  /\ UNCHANGED <<ipVars, main, now, store, queue, call, wk, rp, pidCount, whCount, whLast, sends,
                 order, reaped, truncated, archived, delays>>
  /\ UNCHANGED limVars

\* its UpdateStatus(notifLog.ID, queued, "", "")
R2Reset ==
  /\ rp2.pc = "reset"
  /\ \E ok \in Outcomes :
       /\ Fault(ok)
       /\ store' = IF ok THEN UpdateStatus(Head(rp2.stale), StatusQueued, NoPid, "")
                   ELSE store
       /\ order' = IF ok THEN Mutated(Head(rp2.stale), StatusQueued) ELSE order
       /\ rp2' = IF ok THEN [rp2 EXCEPT !.pc = "enqueue"] ELSE NextStale2
  /\ UNCHANGED <<ipVars, main, now, queue, call, wk, rp, pidCount, whCount, whLast, sends,
                 reaped, truncated, archived, delays>>
  /\ UNCHANGED limVars

\* its enqueuer.EnqueueSendNotification(notifLog.ID)
R2Enqueue ==
  /\ rp2.pc = "enqueue"
  /\ \E ok \in Outcomes :
       /\ Fault(ok)
       /\ queue' = IF ok THEN EnqueueSendNotification(Head(rp2.stale)) ELSE queue
  /\ rp2' = NextStale2
  /\ UNCHANGED <<ipVars, main, now, store, call, wk, rp, pidCount, whCount, whLast, sends, order,
                 reaped, truncated, archived, delays>>
  /\ UNCHANGED limVars

Reaper2 == R2Start \/ R2Sweep \/ R2Reset \/ R2Enqueue

\* the worker process got SIGINT/SIGTERM: main cancels the context of Reaper.Run
reaperCancel ==
  /\ main.pc = "serving"
  /\ main' = [main EXCEPT !.pc = "cancelled", !.events = Append(@, "reaperCancel")]
  /\ rp' = [rp EXCEPT !.cancelled = TRUE]
  /\ UNCHANGED <<rp2, ipVars, now, store, queue, call, wk, pidCount, whCount, whLast, faults,
                 sends, order, reaped, truncated, archived, delays>>
  /\ UNCHANGED limVars

\* main calls asynqServer.Shutdown: the server stops taking tasks
Shutdown ==
  /\ main.pc = "cancelled"
  /\ main' = [main EXCEPT !.pc = "draining", !.events = Append(@, "asynqServer.Shutdown")]
  /\ UNCHANGED <<rp2, ipVars, now, store, queue, call, wk, rp, pidCount, whCount, whLast, faults,
                 sends, order, reaped, truncated, archived, delays>>
  /\ UNCHANGED limVars

\* a server whose Shutdown returns without waiting for its handlers
ShutdownReturnsAtOnce ==
  /\ main.pc = "draining"
  /\ main' = [main EXCEPT !.pc = "returning"]
  /\ UNCHANGED <<rp2, ipVars, now, store, queue, call, wk, rp, pidCount, whCount, whLast, faults,
                 sends, order, reaped, truncated, archived, delays>>
  /\ UNCHANGED limVars

\* handler slots still running a task
InFlight == {w \in Workers : wk[w].pc # "idle"}

\* asynqServer.Shutdown returns: every handler has returned, or the shutdown
\* timeout ran out and the server pushed the tasks in flight back to the queue
ShutdownReturns ==
  /\ main.pc = "draining"
  /\ main' = [main EXCEPT !.pc = "returning"]
  /\ queue' = queue (+) SetToBag({wk[w].task : w \in InFlight})
  /\ wk' = [w \in Workers |-> IdleWorker]
  /\ UNCHANGED <<rp2, ipVars, now, store, call, rp, pidCount, whCount, whLast, faults,
                 sends, order, reaped, truncated, archived, delays>>
  /\ UNCHANGED limVars

\* main returns: the deferred calls run last registered first, then the
\* process exits
mainReturn ==
  /\ main.pc = "returning"
  /\ IF main.defers = <<>>
     THEN /\ main' = [main EXCEPT !.pc = "exited"]
          /\ UNCHANGED rp
     ELSE LET f == main.defers[Len(main.defers)]
          IN /\ main' = [main EXCEPT !.defers = SubSeq(@, 1, Len(@) - 1),
                                      !.events = Append(@, f)]
             /\ rp' = IF f = "reaperCancel" THEN [rp EXCEPT !.cancelled = TRUE] ELSE rp
  /\ UNCHANGED <<rp2, ipVars, now, store, queue, call, wk, pidCount, whCount, whLast, faults,
                 sends, order, reaped, truncated, archived, delays>>
  /\ UNCHANGED limVars

\* the select of Reaper.Run takes the case ctx.Done() and Run returns; when
\* a tick is ready as well (now = rp.next) the select may take either case
RStop ==
  /\ Alive
  /\ rp.pc = "wait"
  /\ rp.cancelled
  /\ rp' = [rp EXCEPT !.pc = "stopped"]
  /\ UNCHANGED <<rp2, ipVars, main, now, store, queue, call, wk, pidCount, whCount, whLast, faults,
                 sends, order, reaped, truncated, archived, delays>>
  /\ UNCHANGED limVars

\* the clock advances up to the next tick of the reaper's ticker, and freely
\* once Run has returned or the process has exited
Tick ==
  /\ \/ rp.pc = "wait" /\ now < rp.next
     \/ rp.pc = "stopped"
     \/ ~Alive
  /\ rp2.pc = "off" \/ (rp2.pc = "wait" /\ now < rp2.next)
  /\ now < MaxTime
  /\ now' = now + 1
  /\ UNCHANGED <<rp2, ipVars, main, store, queue, call, wk, rp, pidCount, whCount, whLast, faults, sends,
                 order, reaped, truncated, archived, delays>>
  /\ UNCHANGED limVars

Reaper == RSweep \/ RReset \/ REnqueue

\* ------------------------------- webhook: Handler.ResendWebhook and service
\* the status a Resend event type maps to, "" for an ignored type
EventStatus(eventType) ==
  CASE eventType = "email.delivered" -> StatusDelivered
    [] eventType = "email.bounced" -> StatusBounced
    [] eventType = "email.opened" -> StatusOpened
    [] OTHER -> ""

\* rows a webhook for the provider id updates
RowsWithPid(providerID) == {i \in DOMAIN store : store[i].providerId = providerID}

\* Service.HandleWebhookEvent: the store after the call
HandleWebhookEvent(providerID, status, ok) ==
  IF providerID = NoPid \/ ~ok THEN store
  ELSE UpdateWebhookStatus(providerID, status)

\* a service that accepts an empty provider_id
HandleWebhookErrorNoValidation(providerID, ok) == IF ~ok THEN "internal" ELSE ""

\* the error HandleWebhookEvent returns, "" for nil
HandleWebhookError(providerID, ok) ==
  IF providerID = NoPid THEN "validation"
  ELSE IF ~ok THEN "internal"
  ELSE ""

\* what the request carried: an unhandled event type, no email id, the id of
\* no record or the id of a record
WebhookKind(eventType, emailID) ==
  IF EventStatus(eventType) = "" THEN "unhandled"
  ELSE IF emailID = NoPid THEN "empty"
  ELSE IF RowsWithPid(emailID) = {} THEN "nomatch"
  ELSE "match"

\* Handler.ResendWebhook: unhandled event types are acknowledged and ignored,
\* the others go to the service; its error becomes the response
ResendWebhook(eventType, emailID) ==
  /\ whCount < MaxWebhooks
  /\ whCount' = whCount + 1
  /\ IF EventStatus(eventType) = ""
     THEN /\ whLast' = [kind |-> WebhookKind(eventType, emailID), res |-> "ignored",
                        storeCalled |-> FALSE]
          /\ UNCHANGED <<store, order, faults>>
     ELSE \E ok \in (IF emailID = NoPid THEN {TRUE} ELSE Outcomes) :
            /\ Fault(ok)
            /\ store' = HandleWebhookEvent(emailID, EventStatus(eventType), ok)
            /\ order' = [i \in Ids |->
                 IF ok /\ emailID # NoPid /\ i \in RowsWithPid(emailID)
                 THEN OrderAfter(order[i], "webhook") ELSE order[i]]
            /\ whLast' =
                 [kind |-> WebhookKind(eventType, emailID),
                  res |-> IF HandleWebhookError(emailID, ok) = "" THEN "processed"
                          ELSE HandleWebhookError(emailID, ok),
                  storeCalled |-> emailID # NoPid]
  /\ UNCHANGED <<rp2, ipVars, main, now, queue, call, wk, rp, pidCount, sends, reaped, truncated, archived, delays>>
  /\ UNCHANGED limVars

EventTypes == {"email.delivered", "email.bounced", "email.opened", "email.sent"}

\* provider ids a webhook may carry: none, every id issued, one never issued
EmailIDs == 0..(pidCount + 1)

Webhook(E) == \E eventType \in E, emailID \in EmailIDs : ResendWebhook(eventType, emailID)

\* one worker process under two concurrent senders of valid email requests,
\* one sending with an idempotency key and the others without
NextReaper ==
  \/ Intake({1}, {"k1"}, {ChannelEmail}, {TypeConfirmSignup})
  \/ Intake(Callers \ {1}, {""}, {ChannelEmail}, {TypeConfirmSignup})
  \/ Worker({1})
  \/ Reaper
  \/ Tick

SpecReaper == Init /\ [][NextReaper]_vars

\* a reaper whose batch holds more than one record
SweepBatchSize == 2

\* the worker process of SpecReaper with the larger batch
SpecSweep == Configured(SweepBatchSize) /\ [][NextReaper]_vars

\* the worker process with its shutdown: one sender, one handler slot, the
\* reaper and the cancellation of its context
NextShutdown ==
  \/ Intake({1}, {"k1"}, {ChannelEmail}, {TypeConfirmSignup})
  \/ Worker({1})
  \/ Reaper
  \/ reaperCancel
  \/ Shutdown
  \/ ShutdownReturns
  \/ mainReturn
  \/ RStop
  \/ Tick

\* the reaper goroutine keeps running: a step of the sweep or of the select
\* that stays possible is taken
SpecShutdown ==
  /\ Init
  /\ [][NextShutdown]_vars
  /\ WF_vars(Reaper)
  /\ WF_vars(RStop)

\* the running system: the queue server keeps dispatching and its handler
\* keeps going, the reaper goroutine keeps running and time passes; a
\* caller may stop at any point
NextRecovery ==
  \/ Intake({1}, {"k1"}, Channels, {TypeConfirmSignup})
  \/ Worker({1})
  \/ Reaper
  \/ Tick

SpecRecovery ==
  /\ Init
  /\ [][NextRecovery]_vars
  /\ WF_vars(Worker({1}))
  /\ WF_vars(Reaper)
  /\ WF_vars(Tick)

\* a backlog: the handlers are down, so the records the callers create stay
\* queued until the reaper finds them; the reaper goroutine keeps running and
\* time passes
NextBacklog ==
  \/ Intake({1}, {"k1"}, {ChannelEmail}, {TypeConfirmSignup})
  \/ Intake(Callers \ {1}, {""}, {ChannelEmail}, {TypeConfirmSignup})
  \/ Reaper
  \/ Tick

SpecBacklog ==
  /\ Init
  /\ [][NextBacklog]_vars
  /\ WF_vars(Reaper)
  /\ WF_vars(Tick)

\* two worker processes against one store and one queue: the reaper of each,
\* one handler, one caller
NextTwoReapers ==
  \/ Intake({1}, {"k1"}, {ChannelEmail}, {TypeConfirmSignup})
  \/ Worker({1})
  \/ Reaper
  \/ Reaper2
  \/ Tick

SpecTwoReapers == Init /\ [][NextTwoReapers]_vars

Next ==
  \/ Intake({1}, Keys, Channels, Types)
  \/ Worker(Workers)
  \/ Reaper
  \/ Webhook(EventTypes)
  \/ Tick

Spec == Init /\ [][Next]_vars

\* ------------------------- recipient limiter: RedisRecipientLimiter.Allow
\* the sorted set under notifly:ratelimit:<recipient>; the key is gone once
\* its TTL has run out
LiveBucket(rcpt) ==
  IF bucketExp[rcpt] # NoTime /\ now >= bucketExp[rcpt] THEN EmptyBag
  ELSE bucket[rcpt]

\* a limiter that never expires an admission
ZRemRangeByScoreNothing(b, windowStart) == b

\* ZREMRANGEBYSCORE key -inf windowStart: scores up to windowStart are removed
ZRemRangeByScore(b, windowStart) ==
  [score \in {x \in DOMAIN b : x > windowStart} |-> b[score]]

\* ZCARD
ZCard(b) == BagCardinality(b)

LimReturn(l, res) == [lim EXCEPT ![l] = [@ EXCEPT !.pc = "idle", !.res = res]]

\* first pipeline: expire entries older than the window and count the rest
AllowCheck(l, rcpt) ==
  /\ lim[l].pc = "idle"
  /\ \E ok \in Outcomes :
       /\ Fault(ok)
       /\ IF ok
          THEN LET kept == ZRemRangeByScore(LiveBucket(rcpt), now - Window)
               IN /\ bucket' = [bucket EXCEPT ![rcpt] = kept]
                  /\ bucketExp' = [bucketExp EXCEPT ![rcpt] =
                        IF ZCard(kept) = 0 THEN NoTime ELSE @]
                  /\ lim' = IF ZCard(kept) >= MaxPerWindow
                            THEN LimReturn(l, "denied")
                            ELSE [lim EXCEPT ![l] =
                                   [pc |-> "record", rcpt |-> rcpt, at |-> now, res |-> "none"]]
          ELSE /\ lim' = LimReturn(l, "error")
               /\ UNCHANGED <<bucket, bucketExp>>
  /\ UNCHANGED admits
  /\ UNCHANGED <<rp2, ipVars, main, now, store, queue, call, wk, rp, pidCount, whCount, whLast, sends,
                 order, reaped, truncated, archived, delays>>

\* an Allow that admits although the second pipeline failed
AllowRecordIgnoreError(l) ==
  /\ lim[l].pc = "record"
  /\ \E ok \in Outcomes :
       /\ Fault(ok)
       /\ bucket' = IF ok
                    THEN [bucket EXCEPT ![lim[l].rcpt] =
                            LiveBucket(lim[l].rcpt) (+) SetToBag({lim[l].at})]
                    ELSE bucket
       /\ bucketExp' = IF ok THEN [bucketExp EXCEPT ![lim[l].rcpt] = now + Window + TTLMargin]
                       ELSE bucketExp
       /\ admits' = [admits EXCEPT ![lim[l].rcpt] = @ (+) SetToBag({now})]
       /\ lim' = LimReturn(l, "allowed")
  /\ UNCHANGED <<rp2, ipVars, main, now, store, queue, call, wk, rp, pidCount, whCount, whLast, sends,
                 order, reaped, truncated, archived, delays>>

\* an Allow that sets the time-to-live only on a key that has none
AllowRecordExpireOnce(l) ==
  /\ lim[l].pc = "record"
  /\ LET rcpt == lim[l].rcpt
     IN \E ok \in Outcomes :
          /\ Fault(ok)
          /\ IF ok
             THEN /\ bucket' = [bucket EXCEPT ![rcpt] =
                        LiveBucket(rcpt) (+) SetToBag({lim[l].at})]
                  /\ bucketExp' = [bucketExp EXCEPT ![rcpt] =
                        IF @ = NoTime \/ now >= @ THEN now + Window + TTLMargin ELSE @]
                  /\ admits' = [admits EXCEPT ![rcpt] = @ (+) SetToBag({now})]
                  /\ lim' = LimReturn(l, "allowed")
             ELSE /\ lim' = LimReturn(l, "error")
                  /\ UNCHANGED <<bucket, bucketExp, admits>>
  /\ UNCHANGED <<rp2, ipVars, main, now, store, queue, call, wk, rp, pidCount, whCount, whLast, sends,
                 order, reaped, truncated, archived, delays>>

\* second pipeline: ZADD the admission scored by the time taken at the start
\* of Allow, and EXPIRE the key window + one minute from now
AllowRecord(l) ==
  /\ lim[l].pc = "record"
  /\ LET rcpt == lim[l].rcpt
     IN \E ok \in Outcomes :
          /\ Fault(ok)
          /\ IF ok
             THEN /\ bucket' = [bucket EXCEPT ![rcpt] =
                        LiveBucket(rcpt) (+) SetToBag({lim[l].at})]
                  /\ bucketExp' = [bucketExp EXCEPT ![rcpt] = now + Window + TTLMargin]
                  /\ admits' = [admits EXCEPT ![rcpt] = @ (+) SetToBag({now})]
                  /\ lim' = LimReturn(l, "allowed")
             ELSE /\ lim' = LimReturn(l, "error")
                  /\ UNCHANGED <<bucket, bucketExp, admits>>
  /\ UNCHANGED <<rp2, ipVars, main, now, store, queue, call, wk, rp, pidCount, whCount, whLast, sends,
                 order, reaped, truncated, archived, delays>>

\* the clock of the intake process (no reaper runs there)
LimTick ==
  /\ now < MaxTime
  /\ now' = now + 1
  /\ UNCHANGED <<rp2, ipVars, main, store, queue, call, wk, rp, pidCount, whCount, whLast, faults, sends,
                 order, reaped, truncated, archived, delays>>
  /\ UNCHANGED limVars

Limiter(L) ==
  \E l \in L :
    \/ \E rcpt \in Recipients : AllowCheck(l, rcpt)
    \/ AllowRecord(l)

NextLimiter == Limiter(LimCallers) \/ LimTick

SpecLimiter == Init /\ [][NextLimiter]_vars

\* one caller: every Allow call returns before the next one starts
NextLimiterSeq == Limiter({1}) \/ LimTick

SpecLimiterSeq == Init /\ [][NextLimiterSeq]_vars

\* ------------------------------- HTTP rate limit: RateLimiter.getLimiter
\* the number of limiters rate.NewLimiter has made so far
RECURSIVE CreatedIn(_)
CreatedIn(S) ==
  IF S = {} THEN 0
  ELSE LET ip == CHOOSE x \in S : TRUE
       IN  ipLimiter.created[ip] + CreatedIn(S \ {ip})

\* rate.NewLimiter returns a new instance, distinct from every earlier one
NewLimiter == CreatedIn(IPs) + 1

otherIpVars == <<now, faults, rp2, pipeVars, limVars>>

\* Middleware: a request from ip calls rl.getLimiter(c.ClientIP())
GlCall(g, ip) ==
  /\ gl[g].pc = "idle"
  /\ gl' = [gl EXCEPT ![g] = [pc |-> "rlock", ip |-> ip, ret |-> NoLimiter]]
  /\ UNCHANGED ipLimiter
  /\ UNCHANGED otherIpVars

\* rl.mu.RLock(): waits while a writer holds the mutex
GlRLock(g) ==
  /\ gl[g].pc = "rlock"
  /\ ipLimiter.mu.writer = NoCaller
  /\ ipLimiter' = [ipLimiter EXCEPT !.mu.readers = @ \cup {g}]
  /\ gl' = [gl EXCEPT ![g].pc = "read"]
  /\ UNCHANGED otherIpVars

\* limiter, exists := rl.limiters[ip]
GlRead(g) ==
  /\ gl[g].pc = "read"
  /\ gl' = [gl EXCEPT ![g].pc = "runlock",
                      ![g].ret = ipLimiter.limiters[gl[g].ip]]
  /\ UNCHANGED ipLimiter
  /\ UNCHANGED otherIpVars

\* rl.mu.RUnlock(); if exists { return limiter }
GlRUnlock(g) ==
  /\ gl[g].pc = "runlock"
  /\ ipLimiter' = [ipLimiter EXCEPT !.mu.readers = @ \ {g}]
  /\ gl' = [gl EXCEPT ![g].pc = IF gl[g].ret # NoLimiter THEN "done" ELSE "lock"]
  /\ UNCHANGED otherIpVars

\* rl.mu.Lock(): waits for the readers and the writer to leave
GlLock(g) ==
  /\ gl[g].pc = "lock"
  /\ ipLimiter.mu.writer = NoCaller
  /\ ipLimiter.mu.readers = {}
  /\ ipLimiter' = [ipLimiter EXCEPT !.mu.writer = g]
  /\ gl' = [gl EXCEPT ![g].pc = "check"]
  /\ UNCHANGED otherIpVars

\* the write without the double-check: a new limiter replaces the entry
GlCheckNoDoubleCheck(g) ==
  /\ gl[g].pc = "check"
  /\ ipLimiter' = [ipLimiter EXCEPT !.limiters[gl[g].ip] = NewLimiter,
                                    !.created[gl[g].ip] = @ + 1]
  /\ gl' = [gl EXCEPT ![g].pc = "unlock", ![g].ret = NewLimiter]
  /\ UNCHANGED otherIpVars

\* under the write lock: the double-check, then rate.NewLimiter and the
\* insertion into the map
GlCheck(g) ==
  /\ gl[g].pc = "check"
  /\ IF ipLimiter.limiters[gl[g].ip] # NoLimiter
     THEN /\ gl' = [gl EXCEPT ![g].pc = "unlock",
                              ![g].ret = ipLimiter.limiters[gl[g].ip]]
          /\ UNCHANGED ipLimiter
     ELSE /\ ipLimiter' = [ipLimiter EXCEPT !.limiters[gl[g].ip] = NewLimiter,
                                            !.created[gl[g].ip] = @ + 1]
          /\ gl' = [gl EXCEPT ![g].pc = "unlock", ![g].ret = NewLimiter]
  /\ UNCHANGED otherIpVars

\* defer rl.mu.Unlock() runs as getLimiter returns
GlUnlock(g) ==
  /\ gl[g].pc = "unlock"
  /\ ipLimiter' = [ipLimiter EXCEPT !.mu.writer = NoCaller]
  /\ gl' = [gl EXCEPT ![g].pc = "done"]
  /\ UNCHANGED otherIpVars

\* the middleware has its limiter and the request goes on; the goroutine
\* serves another request later
GlReturn(g) ==
  /\ gl[g].pc = "done"
  /\ gl' = [gl EXCEPT ![g] = IdleGet]
  /\ UNCHANGED ipLimiter
  /\ UNCHANGED otherIpVars

GetLimiter(G) ==
  \E g \in G :
    \/ \E ip \in IPs : GlCall(g, ip)
    \/ GlRLock(g)
    \/ GlRead(g)
    \/ GlRUnlock(g)
    \/ GlLock(g)
    \/ GlCheck(g)
    \/ GlUnlock(g)
    \/ GlReturn(g)

NextGetLimiter == GetLimiter(GlCallers)

SpecGetLimiter == Init /\ [][NextGetLimiter]_vars

\* ================================================================== claims
CallDone(c) == call[c].pc = "done"

\* calls that got a row inserted by Create
Inserted == {c \in Callers : call[c].pc \in {"enqueue", "markFailed"}
                              \/ call[c].res \in {"ok", "enqueue_err"}}

\* C1: two Enqueue calls with the same non-empty idempotency_key, neither
\* rejected by validation or the limiter and with no store or queue failure,
\* create at most one record and both return a response with the same id.
C1_SameIdForSameKey ==
  \A c1, c2 \in Callers :
    ( /\ c1 # c2
      /\ CallDone(c1) /\ CallDone(c2)
      /\ call[c1].key # "" /\ call[c1].key = call[c2].key
      /\ faults = 0
      /\ call[c1].res \notin {"validation", "rate_limited"}
      /\ call[c2].res \notin {"validation", "rate_limited"} )
    => /\ Cardinality(RowsWithKey(call[c1].key)) <= 1
       /\ call[c1].res \in {"ok", "replay"}
       /\ call[c2].res \in {"ok", "replay"}
       /\ call[c1].id = call[c2].id

\* C2: no two records share a non-empty idempotency_key, also after a failed
\* (ignored) lookup and after a race between lookup and Create; a Create
\* that loses ends its call with an error and inserts nothing (the rows are
\* exactly those of the calls whose Create succeeded).
C2_KeyUnique ==
  /\ \A i, j \in DOMAIN store :
       (i # j /\ store[i].key # "") => store[i].key # store[j].key
  /\ Len(store) = Cardinality(Inserted)
  /\ \A c \in Callers : call[c].res = "create_dup" =>
       /\ call[c].id = NoId
       /\ RowsWithKey(call[c].key) # {}

\* a Create lost on the constraint although the lookup found nothing
C2_Witness ==
  \E c \in Callers : call[c].res = "create_dup" /\ Len(store) = 1

\* C7: a call whose limiter answered with an error is never rejected for the
\* rate limit; it goes on to Create and enqueue like an allowed call: with no
\* other failure it ends accepted (or loses on the key constraint), and an
\* accepted call has its record stored and its task enqueued.
C7_FailOpen ==
  \A c \in Callers : call[c].rl = "error" =>
    /\ call[c].pc \in {"create", "enqueue", "markFailed", "done"}
    /\ call[c].res \notin {"rate_limited", "validation", "replay"}
    /\ (CallDone(c) /\ faults = 1) => call[c].res \in {"ok", "create_dup"}
    /\ call[c].res = "ok" =>
         /\ Exists(call[c].id)
         /\ store[call[c].id].key = call[c].key
         /\ BagIn(Task(call[c].id, 0), queue)

\* accepted after a limiter error
C7_Witness ==
  \E c \in Callers : call[c].rl = "error" /\ call[c].res = "ok"

\* tasks of record i waiting in the queue or running in a handler
HasLiveTask(i) ==
  \/ \E t \in BagToSet(queue) : t.id = i
  \/ \E w \in Workers : wk[w].pc # "idle" /\ wk[w].task.id = i

\* an enqueue of record i is the next step of intake or of the sweep
PendingEnqueue(i) ==
  \/ \E c \in Callers : call[c].pc = "enqueue" /\ call[c].id = i
  \/ rp.pc = "enqueue" /\ Head(rp.stale) = i

\* C3: every task id waiting in the queue, dispatched to a handler or about
\* to be re-enqueued by the sweep is the id of a row of the store.
C3_TaskHasRecord ==
  /\ \A t \in BagToSet(queue) : Exists(t.id)
  /\ \A w \in Workers : wk[w].pc # "idle" => Exists(wk[w].task.id)
  /\ \A k \in 1..Len(rp.stale) : Exists(rp.stale[k])

\* a dispatch of a record runs while a task re-enqueued by the reaper waits
C3_Witness ==
  /\ reaped
  /\ \E w \in Workers :
       /\ wk[w].pc = "send"
       /\ BagIn(Task(wk[w].task.id, 0), queue)

Overdue(i) ==
  /\ store[i].status \in {StatusQueued, StatusProcessing}
  /\ now - store[i].updatedAt > StaleThreshold + Interval

\* C4 (as claimed): with a healthy store and queue, no queued or processing
\* record is left more than stale_threshold + interval after its updated_at,
\* however many records are stale at once.
C4_RequeuedInTime ==
  faults = 0 => \A i \in DOMAIN store : ~Overdue(i)

\* C4 (amended): the same as long as no sweep found more than batch_size
\* stale records; and a reset is followed by the re-enqueue in the same
\* sweep, so a queued record always has a task or an enqueue pending.
C4_RequeuedInTimeWithinBatch ==
  faults = 0 =>
    /\ ~truncated => \A i \in DOMAIN store : ~Overdue(i)
    /\ \A i \in DOMAIN store :
         store[i].status = StatusQueued => HasLiveTask(i) \/ PendingEnqueue(i)

\* a record stuck in processing was reset and re-enqueued by a sweep that
\* took every stale record
C4_Witness ==
  /\ faults = 0 /\ reaped /\ ~truncated
  /\ \E i \in DOMAIN store :
       /\ store[i].status = StatusQueued
       /\ order[i] = "off"
       /\ store[i].updatedAt = now
       /\ BagIn(Task(i, 0), queue)

\* C5: a sent record is never moved back to queued: whenever queued is
\* written to a record (no store, queue or provider call having failed), the
\* record was queued or processing and its updated_at older than the stale
\* threshold just before the write.
C5_ResetOnlyStale ==
  [][\A i \in DOMAIN store :
       (faults' = 0 /\ store'[i].status = StatusQueued /\ store'[i] # store[i]) =>
         /\ store[i].status \in {StatusQueued, StatusProcessing}
         /\ store[i].updatedAt < now - StaleThreshold]_vars

\* admissions of the recipient in the window of length Window ending at t
AdmitsInWindow(rcpt, t) ==
  BagCardinality([x \in {y \in DOMAIN admits[rcpt] : y > t - Window /\ y <= t}
                    |-> admits[rcpt][x]])

\* C6: with a healthy limiter store, in every window at most max_per_window
\* Allow calls of a recipient returned allowed, whatever the interleaving.
C6_WindowLimit ==
  faults = 0 =>
    \A rcpt \in Recipients, t \in 0..MaxTime :
      AdmitsInWindow(rcpt, t) <= MaxPerWindow

AllowedTransitions ==
  {<<StatusQueued, StatusProcessing>>, <<StatusQueued, StatusFailed>>,
   <<StatusProcessing, StatusSent>>, <<StatusProcessing, StatusFailed>>,
   <<StatusProcessing, StatusQueued>>,
   <<StatusSent, StatusDelivered>>, <<StatusSent, StatusBounced>>,
   <<StatusSent, StatusOpened>>,
   <<StatusDelivered, StatusOpened>>,
   <<StatusFailed, StatusQueued>>}

\* C8: every change of a record's status is an allowed lifecycle transition
\* (a write of the status the record already has is no change; no store,
\* queue or provider call has failed).
C8_LifecycleTransitions ==
  [][\A i \in DOMAIN store :
       (faults' = 0 /\ store'[i].status # store[i].status) =>
         <<store[i].status, store'[i].status>> \in AllowedTransitions]_vars

\* C9: no record is delivered through the provider twice, also when its
\* task is dispatched again (no store, queue or provider call having failed).
C9_NoSecondSend == faults = 0 => \A i \in Ids : sends[i] <= 1

NormalOperation == faults = 0 /\ ~reaped

\* record i was accepted and none of its tasks is waiting or running
Settled(i) ==
  /\ \E c \in Callers : call[c].res = "ok" /\ call[c].id = i
  /\ ~HasLiveTask(i)

HappyPath(i) ==
  /\ order[i] # "off"
  /\ sends[i] <= 1
  /\ order[i] \in {"sent", "webhook"} => sends[i] = 1
  /\ Settled(i) => sends[i] = 1 /\ order[i] \in {"sent", "webhook"}

\* C10 (as claimed): under normal operation every accepted record gets
\* exactly one provider Send and its mutations come in the order
\* create, processing, sent, webhook updates.
C10_HappyPathEveryRecord ==
  NormalOperation => \A i \in DOMAIN store : HappyPath(i)

\* C10 (amended): the same for every accepted record whose channel has a
\* registered provider.
C10_HappyPathProviderChannel ==
  NormalOperation =>
    \A i \in DOMAIN store : store[i].channel \in providers => HappyPath(i)

\* a record sent once and then reported delivered by a webhook
C10_Witness ==
  /\ NormalOperation
  /\ \E i \in DOMAIN store :
       /\ Settled(i)
       /\ sends[i] = 1
       /\ order[i] = "webhook"
       /\ store[i].status = StatusDelivered

\* ------------------------------------------------------------------- C11
\* the steps of ProcessTask as seen on the handler slot w
StepMarkFailed(w) == wk[w].pc = "markFailed" /\ wk'[w].pc = "idle"
StepMarkSent(w) == wk[w].pc = "markSent" /\ wk'[w].pc = "idle"
StepSetProcessing(w) == wk[w].pc = "setProcessing" /\ wk'[w].pc = "prepare"

\* the step made no store call fail
StoreOk == faults' = faults

AllTasks == BagToSet(queue) \cup {wk[w].task : w \in {v \in Workers : wk[v].pc # "idle"}}

\* a failed Send: the record is failed with the provider error stored, and
\* the task comes back while it was retried less than max_retry times
FailedAttempt(w) ==
  LET t == wk[w].task
  IN (StepMarkFailed(w) /\ StoreOk) =>
       /\ store'[t.id].status = StatusFailed
       /\ store'[t.id].errMsg = "provider error"
       /\ queue' = IF t.retried < MaxRetry
                   THEN queue (+) SetToBag({Task(t.id, t.retried + 1)})
                   ELSE queue

\* a retry after a recorded provider failure moves the record failed -> processing
RetryAttempt(w) ==
  LET t == wk[w].task
  IN (StepSetProcessing(w) /\ StoreOk /\ t.retried > 0
        /\ store[t.id].errMsg = "provider error") =>
       /\ store[t.id].status = StatusFailed
       /\ store'[t.id].status = StatusProcessing

\* an attempt whose Send returned a message id ends in sent with that id
SuccessfulAttempt(w) ==
  LET t == wk[w].task
  IN (StepMarkSent(w) /\ StoreOk /\ wk[w].pid # NoPid) =>
       /\ store'[t.id].status = StatusSent
       /\ store'[t.id].providerId = wk[w].pid

\* once the queue gave the task up after a provider failure, the failed
\* record stays failed
StaysFailed(i) ==
  ( /\ i \in archived
    /\ store[i].status = StatusFailed
    /\ store[i].errMsg = "provider error" )
  => store'[i].status = StatusFailed

InIntake(i) == \E c \in Callers : call[c].pc \in {"enqueue", "markFailed"} /\ call[c].id = i

\* record i is stuck: queued or processing, older than the stale threshold,
\* with no task waiting or running, and nobody is working on it
Stuck(i) ==
  IF Exists(i)
  THEN /\ store[i].status \in {StatusQueued, StatusProcessing}
       /\ store[i].updatedAt < now - StaleThreshold
       /\ ~HasLiveTask(i)
       /\ ~PendingEnqueue(i)
       /\ ~InIntake(i)
  ELSE FALSE

StatusIs(i, status) == IF Exists(i) THEN store[i].status = status ELSE FALSE

HasProvider(i) == IF Exists(i) THEN store[i].channel \in providers ELSE FALSE

\* no store, queue or provider failure from here on
Healthy == faults = MaxFaults

\* the model still has a sweep and a provider message id to come
InHorizon == rp.next <= MaxTime /\ pidCount < MaxSends

\* the reaper has reset record i and enqueued its id
Requeued(i) ==
  IF Exists(i)
  THEN /\ reaped
       /\ store[i].status = StatusQueued
       /\ store[i].updatedAt >= now - StaleThreshold
       /\ BagIn(Task(i, 0), queue)
  ELSE FALSE

\* C12 (as claimed): a stuck record is eventually reset to queued and
\* re-enqueued by the reaper, and with a healthy store, queue and provider
\* the worker eventually moves it to sent.
C12_StuckRecordEventuallySent ==
  \A i \in Ids :
    /\ (Stuck(i) /\ Healthy /\ InHorizon) ~> Requeued(i)
    /\ (Stuck(i) /\ Healthy /\ InHorizon) ~> StatusIs(i, StatusSent)

\* C12 (amended): the record is re-enqueued whatever its channel, and it is
\* moved to sent if its channel has a provider (email).
C12_StuckRecordEventuallySentIfProvider ==
  \A i \in Ids :
    /\ (Stuck(i) /\ Healthy /\ InHorizon) ~> Requeued(i)
    /\ (Stuck(i) /\ Healthy /\ InHorizon /\ HasProvider(i)) ~> StatusIs(i, StatusSent)

\* a record that was stuck in processing has been recovered and sent
C12_Witness ==
  /\ reaped /\ Healthy
  /\ \E i \in DOMAIN store :
       /\ store[i].status = StatusSent
       /\ store[i].sentAt > StaleThreshold
       /\ sends[i] = 1

\* ------------------------------------------------------------------- C13
\* the lookup step of the call c, made with no store failure
StepLookup(c) == call[c].pc = "lookup" /\ call'[c].pc # "lookup" /\ StoreOk

\* C13: when a record with the request's non-empty key exists, Enqueue returns
\* that record's id, current status, channel and key, and the call has no
\* other effect: the store and the queue are unchanged and the limiter was
\* not consulted.
C13_ReplayHasNoEffect ==
  [][ \A c \in Callers :
        LET existing == GetByIdempotencyKey(call[c].key)
        IN /\ (StepLookup(c) /\ existing # NoId) =>
                /\ call'[c].pc = "done"
                /\ call'[c].res = "replay"
                /\ call'[c].id = existing
                /\ call'[c].rstatus = store[existing].status
                /\ call'[c].rchannel = store[existing].channel
                /\ call'[c].rkey = store[existing].key
                /\ call'[c].rkey = call[c].key
                /\ call'[c].rl = "none"
                /\ store' = store
                /\ queue' = queue
                /\ UNCHANGED limVars
           /\ (call[c].pc = "idle" /\ call'[c].pc # "idle") =>
                store' = store /\ queue' = queue /\ UNCHANGED limVars ]_vars

\* a replay answered with the channel of the record, not of the request
C13_Witness ==
  \E c \in Callers :
    /\ call[c].res = "replay"
    /\ call[c].rchannel # call[c].channel
    /\ call[c].rstatus = StatusFailed
    /\ Len(store) = 1

\* ------------------------------------------------------------------- C14
\* C14: when the limiter answers allowed=false, Enqueue fails with the
\* rate-limit ValidationError and leaves the store and the queue unchanged:
\* the call created no record and enqueued no task.
C14_DeniedChangesNothing ==
  /\ [][ \A c \in Callers :
           (call[c].pc = "ratelimit" /\ call'[c].rl = "denied") =>
             /\ call'[c].pc = "done"
             /\ call'[c].res = "rate_limited"
             /\ call'[c].id = NoId
             /\ store' = store
             /\ queue' = queue ]_vars
  /\ [](\A c \in Callers : call[c].rl = "denied" =>
           /\ CallDone(c)
           /\ call[c].res = "rate_limited"
           /\ c \notin Inserted
           /\ Len(store) = Cardinality(Inserted))

\* a denied call next to an accepted one: one record, one task
C14_Witness ==
  /\ \E c \in Callers : call[c].res = "rate_limited"
  /\ \E c \in Callers : call[c].res = "ok"
  /\ Len(store) = 1
  /\ BagCardinality(queue) = 1

\* ------------------------------------------------------------------- C15
\* the admissions of the recipient that are inside the window ending now
Unexpired(rcpt) ==
  LET b == LiveBucket(rcpt)
  IN [score \in {x \in DOMAIN b : x > now - Window} |-> b[score]]

\* the first pipeline of the call l ran without a Redis failure
StepCheck(l) == lim[l].pc = "idle" /\ lim'[l] # lim[l] /\ StoreOk

\* the second pipeline of the call l ran without a Redis failure
StepRecord(l) == lim[l].pc = "record" /\ lim'[l].pc = "idle" /\ StoreOk

\* C15: with one Allow call at a time, a call is admitted and records exactly
\* one admission if and only if fewer than max_per_window unexpired
\* admissions are in the bucket; otherwise it is denied and records nothing;
\* so a window never holds more than max_per_window admissions.
C15_SequentialAllow ==
  /\ [][ \A l \in LimCallers, rcpt \in Recipients :
           /\ (StepCheck(l) /\ BagCardinality(Unexpired(rcpt)) < MaxPerWindow) =>
                /\ lim'[l].pc = "record"
                /\ bucket'[rcpt] = Unexpired(rcpt)
           /\ (StepCheck(l) /\ BagCardinality(Unexpired(rcpt)) >= MaxPerWindow) =>
                /\ lim'[l].pc = "idle"
                /\ lim'[l].res = "denied"
                /\ bucket'[rcpt] = Unexpired(rcpt)
                /\ admits' = admits
           /\ StepRecord(l) =>
                /\ lim'[l].res = "allowed"
                /\ BagCardinality(bucket'[rcpt]) = BagCardinality(LiveBucket(rcpt)) + 1
                /\ BagCardinality(admits'[rcpt]) = BagCardinality(admits[rcpt]) + 1 ]_vars
  /\ [](\A rcpt \in Recipients : BagCardinality(Unexpired(rcpt)) <= MaxPerWindow)

\* the window is full and the call is denied, after an earlier admission
\* has left the window
C15_Witness ==
  \E l \in LimCallers, rcpt \in Recipients :
    /\ lim[l].pc = "idle" /\ lim[l].res = "denied"
    /\ BagCardinality(Unexpired(rcpt)) = MaxPerWindow
    /\ BagCardinality(admits[rcpt]) > MaxPerWindow
    /\ faults = 0

\* ------------------------------------------------------------------- C16
\* the enqueue of the call c failed and the call is about to return
StepFailedEnqueue(c) == call[c].pc = "markFailed" /\ call'[c].pc = "done"

\* record i was left queued by an Enqueue call that returned the enqueue
\* error, and a sweep late enough to find it stale is still to come
LeftQueued(i) ==
  IF Exists(i)
  THEN /\ \E c \in Callers : call[c].res = "enqueue_err"
       /\ sends[i] = 0
       /\ store[i].status = StatusQueued
       /\ ~HasLiveTask(i)
       /\ ~PendingEnqueue(i)
       /\ store[i].updatedAt + StaleThreshold < MaxTime
       /\ rp.next <= MaxTime
  ELSE FALSE

\* C16: when the enqueue fails after the record was created, Enqueue returns
\* an internal error and sets the record to failed with an error message if
\* the store takes the update; if that update fails too the record remains
\* queued, and the reaper re-enqueues it once it is past the stale threshold.
\* (A call that returns only after the stale threshold finds the record
\* already recovered by the reaper; the failed update then leaves it as it is.)
C16_EnqueueFailure ==
  /\ [][ \A c \in Callers :
           StepFailedEnqueue(c) =>
             /\ call'[c].res = "enqueue_err"
             /\ queue' = queue
             /\ StoreOk =>
                  /\ store'[call[c].id].status = StatusFailed
                  /\ store'[call[c].id].errMsg = "failed to enqueue"
             /\ ~StoreOk =>
                  /\ store' = store
                  /\ ~reaped => store[call[c].id].status = StatusQueued ]_vars
  /\ \A i \in Ids : (LeftQueued(i) /\ Healthy) ~> Requeued(i)

\* the record of a call that failed on the enqueue and on the update has
\* been re-enqueued by the reaper
C16_Witness ==
  /\ \E c \in Callers : call[c].res = "enqueue_err"
  /\ faults = MaxFaults
  /\ \E i \in DOMAIN store : Requeued(i) /\ sends[i] = 0 /\ store[i].errMsg = ""

\* ------------------------------------------------------------------- C17
\* a webhook request was handled
StepWebhook == whCount' = whCount + 1

\* C17: a webhook with an empty provider_id fails with a ValidationError
\* and the store is not called; one whose provider_id matches no record
\* succeeds and changes no record; one with an unhandled event type is
\* acknowledged as ignored without a store call.
C17_WebhookNoOps ==
  [][ StepWebhook =>
        /\ whLast'.kind = "empty" =>
             /\ whLast'.res = "validation"
             /\ ~whLast'.storeCalled
             /\ store' = store
        /\ (whLast'.kind = "nomatch" /\ StoreOk) =>
             /\ whLast'.res = "processed"
             /\ store' = store
        /\ whLast'.kind = "unhandled" =>
             /\ whLast'.res = "ignored"
             /\ ~whLast'.storeCalled
             /\ store' = store
             /\ StoreOk ]_vars

\* a webhook for an id of no record was processed while a sent record exists
C17_Witness ==
  /\ whLast.kind = "nomatch"
  /\ whLast.res = "processed"
  /\ \E i \in DOMAIN store : store[i].status = StatusSent /\ store[i].providerId # NoPid

\* ------------------------------------------------------------------- C18
\* the timestamp that belongs to the status of the row, NoTime when the
\* status has none
StatusTimestamp(row) ==
  CASE row.status = StatusSent -> row.sentAt
    [] row.status = StatusDelivered -> row.deliveredAt
    [] row.status = StatusBounced -> row.bouncedAt
    [] row.status = StatusOpened -> row.openedAt
    [] OTHER -> NoTime

\* C18: a record whose status is sent, delivered, bounced or opened has the
\* corresponding timestamp set and a non-empty provider_id.
C18_TerminalHasTimestampAndProviderId ==
  \A i \in DOMAIN store :
    store[i].status \in {StatusSent} \cup WebhookStatuses =>
      /\ StatusTimestamp(store[i]) # NoTime
      /\ store[i].providerId # NoPid

\* ------------------------------------------------------------------- C19
\* C19: whenever ProcessTask returns nil for a record, the record has been
\* moved to sent, its provider_id is the id provider.Send returned in that
\* attempt, and sent_at is set.
C19_NilMeansSent ==
  [][ \A w \in Workers :
        StepMarkSent(w) =>
          LET id == wk[w].task.id
          IN /\ store'[id].status = StatusSent
             /\ store'[id].providerId = wk[w].pid
             /\ store'[id].sentAt # NoTime ]_vars

\* ------------------------------------------------------------------- C20
\* the select of Reaper.Run took the ticker case: a sweep starts
StepSweepStarts == rp.pc = "wait" /\ (rp'.pc = "reset" \/ rp'.next # rp.next)

\* C20: after the context is cancelled Reaper.Run terminates: a sweep in
\* progress completes, and the loop then exits without starting another sweep.
C20_StopsWithoutAnotherSweep ==
  /\ rp.cancelled ~> (rp.pc = "stopped")
  /\ [][ /\ rp.pc \in {"reset", "enqueue"} => rp'.pc # "stopped"
         /\ rp.cancelled => ~StepSweepStarts ]_vars

\* ------------------------------------------------------------------- C21
\* the event e has occurred in the shutdown of the worker process
Occurred(e) == \E k \in DOMAIN main.events : main.events[k] = e

\* every occurrence of e2 comes after an occurrence of e1
Before(e1, e2) ==
  \A k \in DOMAIN main.events :
    main.events[k] = e2 => \E j \in 1..(k - 1) : main.events[j] = e1

C22_WebhookRespectsTerminal ==
  [][ StepWebhook =>
        \A i \in DOMAIN store :
          /\ store[i].status = StatusBounced => store'[i].status = StatusBounced
          /\ store[i].status = StatusDelivered =>
                store'[i].status \in {StatusDelivered, StatusOpened}
          /\ store[i].status = StatusOpened => store'[i].status = StatusOpened ]_vars

\* ------------------------------------------------------------------- C23
\* the timestamps of the row that are set
SetTimestamps(row) ==
  {f \in {"sentAt", "deliveredAt", "openedAt", "bouncedAt"} : row[f] # NoTime}

\* C23: each of sent_at, delivered_at, opened_at and bounced_at keeps the
\* value it got on the first transition into its state: no later update,
\* and no second arrival of the same webhook event, changes it.
C23_TimestampsSetOnce ==
  [][ \A i \in DOMAIN store :
        \A f \in SetTimestamps(store[i]) : store'[i][f] = store[i][f] ]_vars

\* ------------------------------------------------------------------- C24
\* the sweep has reset the record at the head of its batch
StepReset == rp.pc = "reset" /\ rp'.pc = "enqueue"

\* C24: after the reaper has reset a stale record, its status is queued, its
\* error_message is empty and its updated_at is the time of the reset.
C24_ResetClearsError ==
  [][ StepReset =>
        LET id == Head(rp.stale)
        IN /\ store'[id].status = StatusQueued
           /\ store'[id].errMsg = ""
           /\ store'[id].updatedAt = now ]_vars

\* ------------------------------------------------------------------- C25
\* the loop of the sweep goes on: to the next record of the batch, or back to
\* the ticker when the batch is done
SweepContinues ==
  IF Len(rp.stale) > 1
  THEN rp'.pc = "reset" /\ rp'.stale = Tail(rp.stale)
  ELSE rp'.pc = "wait" /\ rp'.stale = <<>>

\* the sweep made a step
StepSweep == rp' # rp /\ rp.pc \in {"reset", "enqueue"}

\* C25: a failed reset or a failed re-enqueue of one record does not stop the
\* sweep: it goes on with the rest of the batch; a record whose reset failed
\* is dropped from the batch without an enqueue, and no record is twice in a
\* batch, so it is not re-enqueued in that sweep.
C25_SweepGoesOn ==
  /\ [][ StepSweep =>
           /\ (rp.pc = "reset" /\ ~StoreOk) =>
                /\ SweepContinues
                /\ queue' = queue
                /\ store' = store
           /\ (rp.pc = "reset" /\ StoreOk) =>
                /\ rp'.pc = "enqueue"
                /\ rp'.stale = rp.stale
                /\ queue' = queue
           /\ rp.pc = "enqueue" =>
                /\ SweepContinues
                /\ queue' = IF StoreOk
                            THEN queue (+) SetToBag({Task(Head(rp.stale), 0)})
                            ELSE queue ]_vars
  /\ [](\A a, b \in DOMAIN rp.stale : a # b => rp.stale[a] # rp.stale[b])

\* a sweep over two stale records is done: the reset of the first failed and
\* it is still stale, the second was reset and re-enqueued
C25_Witness ==
  /\ rp.pc = "wait" /\ rp.next = now + Interval
  /\ faults = 1
  /\ \E i, j \in DOMAIN store :
       /\ i # j
       /\ i \in StaleIds(now - StaleThreshold)
       /\ store[i].updatedAt <= store[j].createdAt
       /\ ~BagIn(Task(i, 0), queue)
       /\ store[j].status = StatusQueued
       /\ store[j].updatedAt = now
       /\ order[j] = "off"
       /\ BagIn(Task(j, 0), queue)

\* ------------------------------------------------------------------- C26
\* the sweep listed a batch of stale records
StepSelect == rp.pc = "wait" /\ rp'.pc = "reset"

\* record i qualifies at scan time: queued or processing, and updated_at
\* older than now - stale_threshold
Qualifies(i) ==
  /\ store[i].status \in {StatusQueued, StatusProcessing}
  /\ store[i].updatedAt < now - StaleThreshold

\* C26: a sweep selects only records that at scan time are queued or
\* processing with updated_at older than now - stale_threshold, at most
\* batch_size of them and the oldest updated_at first; a sent, failed,
\* delivered, bounced or opened record is never selected.
C26_SelectsStaleOldestFirst ==
  [][ StepSelect =>
        LET sel == rp'.stale
            chosen == {sel[k] : k \in DOMAIN sel}
        IN /\ Len(sel) <= rp.batchSize
           /\ \A i \in chosen : i \in DOMAIN store /\ Qualifies(i)
           /\ \A i \in chosen :
                store[i].status \notin
                  {StatusSent, StatusFailed, StatusDelivered, StatusBounced, StatusOpened}
           /\ \A a, b \in DOMAIN sel : a < b =>
                /\ sel[a] # sel[b]
                /\ store[sel[a]].updatedAt <= store[sel[b]].updatedAt
           /\ \A i \in DOMAIN store \ chosen : Qualifies(i) =>
                /\ Len(sel) = rp.batchSize
                /\ \A j \in chosen : store[j].updatedAt <= store[i].updatedAt ]_vars

\* a sweep took the older of two stale records and left the younger one
C26_Witness ==
  /\ rp.pc = "reset"
  /\ \E i \in DOMAIN store :
       /\ i # Head(rp.stale)
       /\ Qualifies(i)
       /\ store[Head(rp.stale)].status = StatusProcessing
       /\ store[Head(rp.stale)].updatedAt < store[i].updatedAt

\* ------------------------------------------------------------------- C27
\* the attempt of the slot w ends with an error before the provider is called
StepGiveUp(w) == wk[w].pc \in {"get", "prepare"} /\ wk'[w].pc = "idle"

\* the task of the slot w has no record, or its record has an unrecognized
\* type or a channel without provider
Unprocessable(w) ==
  \/ wk[w].pc = "get" /\ ~Exists(wk[w].task.id)
  \/ wk[w].pc = "prepare" /\ ~IsValidType(wk[w].typ)
  \/ wk[w].pc = "prepare" /\ wk[w].channel \notin providers

GiveUpReason(w) ==
  IF ~IsValidType(wk[w].typ) THEN "unsupported notification type"
  ELSE IF wk[w].channel \notin providers THEN "unsupported channel"
  ELSE "rendering template"

\* store failures of the step (a failed rendering is no store failure)
StoreFailures(w) ==
  faults' - faults - (IF GiveUpReason(w) = "rendering template" THEN 1 ELSE 0)

\* C28: when the type is unrecognized, the channel has no registered provider
\* or the rendering fails, ProcessTask sets the record to failed with the
\* reason as error_message (the store taking the update) and the attempt
\* ends without a call of provider.Send; Send is only reached with a
\* recognized type and a registered provider.
C28_FailedWithoutSend ==
  [][ /\ \A i \in Ids : sends'[i] # sends[i] =>
           \E w \in Workers : wk[w].pc = "send" /\ wk[w].task.id = i
      /\ \A w \in Workers :
        /\ (wk[w].pc = "prepare" /\ wk'[w].pc = "idle") =>
             /\ sends' = sends
             /\ pidCount' = pidCount
             /\ StoreFailures(w) = 0 =>
                  /\ store'[wk[w].task.id].status = StatusFailed
                  /\ store'[wk[w].task.id].errMsg = GiveUpReason(w)
             /\ StoreFailures(w) # 0 => store' = store
        /\ (wk[w].pc = "prepare" /\ wk'[w].pc = "send") =>
             /\ IsValidType(wk[w].typ)
             /\ wk[w].channel \in providers
             /\ store' = store ]_vars

\* the record of an sms request is failed for its channel after every
\* attempt, and no Send was made for it
C28_Witness ==
  \E i \in DOMAIN store :
    /\ store[i].status = StatusFailed
    /\ store[i].errMsg = "unsupported channel"
    /\ store[i].channel = ChannelSMS
    /\ sends[i] = 0
    /\ i \in archived

\* ------------------------------------------------------------------- C29
\* the call l made a step
StepAllow(l) == lim'[l] # lim[l]

\* C29: Allow returns allowed only when the admission was recorded in the
\* bucket; a limiter-store error in the expire/count step or in the insert
\* step yields (false, error), never allowed, and is told apart from a denial.
C29_AllowedOnlyIfRecorded ==
  [][ \A l \in LimCallers :
        /\ (StepAllow(l) /\ lim'[l].res = "allowed") =>
             /\ lim[l].pc = "record"
             /\ StoreOk
             /\ bucket'[lim[l].rcpt] = LiveBucket(lim[l].rcpt) (+) SetToBag({lim[l].at})
        /\ (StepAllow(l) /\ ~StoreOk) =>
             /\ lim'[l].pc = "idle"
             /\ lim'[l].res = "error"
             /\ bucket' = bucket
             /\ admits' = admits
        /\ (StepAllow(l) /\ lim'[l].res = "denied") => StoreOk ]_vars

\* a call passed the count and failed on the insert: it returned the error
\* and nothing is recorded
C29_Witness ==
  \E l \in LimCallers :
    /\ lim[l].pc = "idle" /\ lim[l].res = "error"
    /\ faults = 1
    /\ now > 0 /\ lim[l].at = now
    /\ LiveBucket(lim[l].rcpt) = EmptyBag
    /\ admits[lim[l].rcpt] = EmptyBag

\* ------------------------------------------------------------------- C30
\* the entries of the bucket with a timestamp not less than now - W
NotOlderThanWindow(rcpt) ==
  LET b == LiveBucket(rcpt)
  IN [score \in {x \in DOMAIN b : x >= now - Window} |-> b[score]]

\* C30: Allow expires exactly the entries with a timestamp strictly less
\* than now - W; an entry whose timestamp equals now - W stays and counts.
C30_ExpiresStrictlyOlder ==
  [][ \A l \in LimCallers, rcpt \in Recipients :
        StepCheck(l) =>
          /\ bucket'[rcpt] = NotOlderThanWindow(rcpt)
          /\ lim'[l].res = "denied" <=>
                BagCardinality(NotOlderThanWindow(rcpt)) >= MaxPerWindow ]_vars

\* ---------------------------------------------------------------- C31
\* the k-th retry of a task is the call of RetryDelayFunc with n = k - 1
RetryOf(d) == d[1] + 1

\* C31: every delay the retry-delay function returned for the k-th retry of a
\* task is 30 * 2^(k-1) seconds (30, 60, 120, 240, 480), for every retry
\* count the queue passed to it.
C31_ExponentialBackoff ==
  \A d \in delays : d[2] = 30 * 2 ^ (RetryOf(d) - 1)

\* ---------------------------------------------------------------- C32
\* a call of getLimiter that has its return value
Returned(g) == gl[g].pc = "done"

\* C32: for every client IP at most one limiter is ever created, every call
\* of getLimiter for that IP returns the instance the map holds, whatever the
\* interleaving of the concurrent calls.
C32_OneLimiterPerIP ==
  /\ \A ip \in IPs : ipLimiter.created[ip] <= 1
  /\ \A g \in GlCallers :
       Returned(g) => /\ gl[g].ret # NoLimiter
                      /\ gl[g].ret = ipLimiter.limiters[gl[g].ip]
  /\ \A g, h \in GlCallers :
       Returned(g) /\ Returned(h) /\ gl[g].ip = gl[h].ip => gl[g].ret = gl[h].ret

\* two concurrent calls for one IP both found no limiter under the read lock
\* and both have returned: one created the limiter, the other received it
C32_Witness ==
  /\ Returned(1) /\ Returned(2)
  /\ gl[1].ip = gl[2].ip
  /\ ipLimiter.created[gl[1].ip] = 1
  /\ gl[1].ret = gl[2].ret

\* ---------------------------------------------------------------- C33
\* record i was marked failed by intake after its enqueue had failed
IntakeFailed(i) ==
  IF Exists(i) THEN store[i].errMsg = "failed to enqueue" ELSE FALSE

\* C33: a record that intake marked failed because its enqueue failed never
\* gets a task (the reaper does not enqueue it, a replay of its key does not
\* either) and no provider Send happens for it.
C33_IntakeFailedStaysOut ==
  \A i \in Ids : IntakeFailed(i) => /\ ~HasLiveTask(i)
                                      /\ ~(rp.pc = "enqueue" /\ Head(rp.stale) = i)
                                      /\ sends[i] = 0

\* ---------------------------------------------------------------- C34
\* the tasks for record i the queue holds: pending or scheduled for a retry
\* (in the queue) and active (with a handler)
TasksFor(i) ==
  BagCardinality([t \in {u \in BagToSet(queue) : u.id = i} |-> CopiesIn(t, queue)])
    + Cardinality({w \in Workers : wk[w].pc # "idle" /\ wk[w].task.id = i})

\* C34: at any time the queue holds at most one pending, retry-scheduled or
\* active task per record id.
C34_OneTaskPerRecord ==
  \A i \in Ids : TasksFor(i) <= 1

\* ---------------------------------------------------------------- C35
\* the reaper of the first (second) process has reset record i and is about
\* to enqueue its id
ResetByFirst(i) == rp.pc = "enqueue" /\ Head(rp.stale) = i
ResetBySecond(i) == rp2.pc = "enqueue" /\ Head(rp2.stale) = i

\* C35: with the reapers of several worker processes running against the
\* same store, a stale record is reset and re-enqueued by at most one of them
\* per stale period: never have two reapers both reset the same record and
\* are both about to enqueue it.
C35_OneReaperPerStaleRecord ==
  \A i \in Ids : ~(ResetByFirst(i) /\ ResetBySecond(i))

\* ---------------------------------------------------------------- C36
\* the stale records ListStale returns before or together with record i
AheadOf(i) ==
  {j \in StaleIds(now - StaleThreshold) : store[j].updatedAt <= store[i].updatedAt}

\* the sweeps it takes until record i has had its turn
SweepsNeeded(i) == (Cardinality(AheadOf(i)) + rp.batchSize - 1) \div rp.batchSize

\* record i is stale, the reaper waits for its ticker, the store and the
\* queue are healthy from now on, and the sweeps needed fit into the horizon
\* of the model
StaleAndWaiting(i) ==
  IF Exists(i)
  THEN /\ Qualifies(i)
       /\ ~InIntake(i)
       /\ rp.pc = "wait"
       /\ Healthy
       /\ rp.next + Interval * (SweepsNeeded(i) - 1) <= MaxTime
  ELSE FALSE

\* C36: no stale record is starved, also when more records are stale than a
\* sweep takes: with a healthy store and queue every stale record is reset
\* and re-enqueued by some later sweep.
C36_NoStarvation ==
  \A i \in Ids : StaleAndWaiting(i) ~> Requeued(i)

\* a sweep left stale records behind (more than batch_size were stale) and
\* both records have been reset and re-enqueued since
C36_Witness ==
  /\ truncated
  /\ Healthy
  /\ \A i \in Ids : Requeued(i)

\* ---------------------------------------------------------------- C37
\* the timestamps only a webhook event sets
WebhookTimestamps(row) == <<row.deliveredAt, row.bouncedAt, row.openedAt>>

\* C37: the update to sent is last-writer-wins on provider_id: after a
\* handler has marked its record sent the record carries the provider_id of
\* that handler, whatever it carried before; a webhook event whose
\* provider_id no record carries at that moment (overwritten or not stored
\* yet) changes no record, and no later step that is not a webhook applies it.
C37_LastWriterWins ==
  [][ /\ \A w \in Workers :
           (StepMarkSent(w) /\ StoreOk /\ wk[w].pid # NoPid) =>
              store'[wk[w].task.id].providerId = wk[w].pid
      /\ (StepWebhook /\ whLast'.kind = "nomatch") => store' = store
      /\ ~StepWebhook =>
           \A i \in DOMAIN store :
              WebhookTimestamps(store'[i]) = WebhookTimestamps(store[i]) ]_vars

\* two dispatches of one record were both delivered and both marked it sent,
\* the one with the earlier provider_id last; the last webhook event carried
\* a provider_id that no record had and left the record sent
C37_Witness ==
  \E i \in DOMAIN store :
    /\ sends[i] = 2
    /\ pidCount = 2
    /\ faults = 0
    /\ ~HasLiveTask(i)
    /\ store[i].status = StatusSent
    /\ store[i].providerId = 1
    /\ whLast.kind = "nomatch"
    /\ whLast.res = "processed"

\* ---------------------------------------------------------------- C38
\* an Enqueue call for a request without idempotency_key
Keyless(c) == call[c].pc # "idle" /\ call[c].key = ""

\* the Create of call c returns
StepCreate(c) == call[c].pc = "create" /\ call'[c].pc # "create"

\* C38: a request with an empty idempotency_key is never deduplicated: its
\* call makes no idempotency lookup, its Create inserts a new record whenever
\* the store does not fail, and the accepted calls without a key have
\* pairwise distinct records (any number of them coexist).
C38_EmptyKeyNeverDeduplicated ==
  /\ [](\A c \in Callers :
          Keyless(c) => /\ call[c].pc # "lookup"
                        /\ call[c].res \notin {"replay", "create_dup"})
  /\ [](\A c, d \in Callers :
          (c # d /\ Keyless(c) /\ Keyless(d) /\ call[c].res = "ok" /\ call[d].res = "ok")
             => call[c].id # call[d].id)
  /\ [][ \A c \in Callers :
           (StepCreate(c) /\ call[c].key = "" /\ StoreOk) =>
              /\ Len(store') = Len(store) + 1
              /\ store'[Len(store')].key = ""
              /\ call'[c].pc = "enqueue"
              /\ call'[c].id = Len(store') ]_vars

\* two calls without a key were accepted, each with a record of its own
C38_Witness ==
  /\ Keyless(1) /\ Keyless(2)
  /\ call[1].res = "ok" /\ call[2].res = "ok"
  /\ call[1].id # call[2].id
  /\ Cardinality(RowsWithKey("")) = 2

\* ---------------------------------------------------------------- C39
\* the time-to-live of the recipient's key has run out: Redis has removed
\* the sorted set with everything in it
Expired(rcpt) == bucketExp[rcpt] # NoTime /\ now >= bucketExp[rcpt]

\* the admissions of the recipient that are not older than the window
InWindow(rcpt) == {x \in BagToSet(bucket[rcpt]) : x >= now - Window}

\* C39: the automatic expiry of a recipient's bucket never removes an
\* admission that is still inside the window: when the time-to-live set by
\* the last recorded admission runs out, every entry is older than W.
C39_TTLKeepsWindow ==
  \A rcpt \in Recipients : Expired(rcpt) => InWindow(rcpt) = {}

\* the time-to-live ran out on a bucket that still held (old) admissions
C39_Witness ==
  \E rcpt \in Recipients :
    /\ Expired(rcpt)
    /\ BagToSet(bucket[rcpt]) # {}
    /\ BagCardinality(admits[rcpt]) > 0

====
